---- MODULE Spec2Model ----
(***************************************************************************)
(* Model of python-face-service/main.py: the FastAPI face-matching         *)
(* service (GET /health, POST /encode-image, POST /match,                  *)
(* POST /match-image).                                                     *)
(*                                                                         *)
(* Numbers.  Descriptor coordinates and the threshold are held in          *)
(* hundredths (45 stands for 0.45).  face_distance is the Euclidean norm;  *)
(* the model keeps its square (in units of 1e-4), and compares distances   *)
(* through their squares, which is exact because sqrt is increasing on     *)
(* the non-negative numbers.                                               *)
(*                                                                         *)
(* JSON.  A form field is [ok, val]: ok = FALSE is a text json.loads       *)
(* rejects.  A JSON value that the code converts (regNo through int(),     *)
(* name through str(), descriptor through np.array(.., float64)) carries   *)
(* its JSON type in the field t, so that the conversion can fail as it     *)
(* does in Python.  The text of an array of numbers is written             *)
(* [n, a, b]: n numbers, the first two a and b, all others 0; Vec is the   *)
(* array it stands for.                                                    *)
(***************************************************************************)
EXTENDS Integers, Sequences, FiniteSets

VARIABLES
    MATCH_THRESHOLD,   \* module global, set once at import (line 35)
    libAvailable,      \* whether "import face_recognition" succeeds
    pc,                \* "idle" | "pending" | "done": the request in flight
    request,           \* the request being handled
    response,          \* the response produced for it
    earlier            \* a request/response pair a client has kept

vars == <<MATCH_THRESHOLD, libAvailable, pc, request, response, earlier>>

----------------------------------------------------------------------------
(* Bounds and input universes *)

DescriptorLen == 128
DefaultThreshold == 45
MaxMembers == 2

Thresholds == {-30, 0, 30, DefaultThreshold}

\* The JSON text of an array of n numbers, all zero but the first two.
Numbers(n, a, b) == [n |-> n, a |-> a, b |-> b]
NoNumbers == Numbers(0, 0, 0)

\* The array of numbers a text stands for.
Vec(txt) ==
    [i \in 1..txt.n |-> IF i = 1 THEN txt.a ELSE IF i = 2 THEN txt.b ELSE 0]

Origin == Numbers(DescriptorLen, 0, 0)
NearA  == Numbers(DescriptorLen, 30, 0)
NearB  == Numbers(DescriptorLen, 0, 30)
Short  == Numbers(DescriptorLen - 1, 0, 0)
Long   == Numbers(DescriptorLen + 1, 0, 0)

\* JSON values of the fields of an enrolled entry.
JInt(v)     == [t |-> "int", v |-> v]
JNull       == [t |-> "null", v |-> 0]
JMissing    == [t |-> "missing", v |-> 0]
JStr(s)     == [t |-> "str", s |-> s]
JNoStr      == [t |-> "missing", s |-> ""]
JArray(a)   == [t |-> "array", v |-> a]
JNoArray    == [t |-> "missing", v |-> NoNumbers]
JNullArray  == [t |-> "null", v |-> NoNumbers]

Entry(regNo, name, descriptor) ==
    [obj |-> TRUE, regNo |-> regNo, name |-> name, descriptor |-> descriptor]
\* An element of the enrolled array that is not a JSON object (a number, say).
NonObject ==
    [obj |-> FALSE, regNo |-> JMissing, name |-> JNoStr, descriptor |-> JNoArray]

Identities ==
    { <<JInt(1), JStr("a")>>, <<JMissing, JNoStr>>, <<JNull, JStr("b")>> }

Entries ==
    {NonObject}
    \cup { Entry(JInt(1), JStr("a"), d) : d \in {JNoArray, JNullArray, JArray(Short)} }
    \cup { Entry(id[1], id[2], JArray(d)) : id \in Identities, d \in {Origin, NearA, NearB} }

ListsOf(S, n) == UNION { [1..k -> S] : k \in 0..n }

\* The two form fields of /match, as texts.
JsonOk(v)     == [ok |-> TRUE, val |-> v]
BadDescriptor == [ok |-> FALSE, val |-> NoNumbers]
BadEnrolled   == [ok |-> FALSE, val |-> <<>>]

DescriptorFields ==
    { JsonOk(Origin), JsonOk(NearA), JsonOk(Short), JsonOk(Long), BadDescriptor }
EnrolledFields   == { JsonOk(l) : l \in ListsOf(Entries, MaxMembers) } \cup {BadEnrolled}

\* An uploaded image: whether PIL can open it, and the faces in it, each
\* given by the encoding face_recognition.face_encodings computes for it
\* (always 128-d).
Image(decodable, faces) == [decodable |-> decodable, faces |-> faces]
NoImage == Image(FALSE, <<>>)
Images ==
    { Image(FALSE, <<>>), Image(TRUE, <<>>), Image(TRUE, <<NearA, Origin>>) }

Request(endpoint, descriptor, enrolled, image) ==
    [endpoint |-> endpoint, descriptor |-> descriptor, enrolled |-> enrolled,
     image |-> image]
NoRequest == Request("", BadDescriptor, BadEnrolled, NoImage)

Requests ==
    { Request("/health", BadDescriptor, BadEnrolled, NoImage) }
    \cup { Request("/encode-image", BadDescriptor, BadEnrolled, i) : i \in Images }
    \cup { Request("/match", d, e, NoImage) : d \in DescriptorFields, e \in EnrolledFields }
    \cup { Request("/match-image", BadDescriptor, e, i) : e \in EnrolledFields, i \in Images }

----------------------------------------------------------------------------
(* Responses *)

Response(status, kind, regNo, name, error, descriptor) ==
    [status |-> status, kind |-> kind, regNo |-> regNo, name |-> name,
     error |-> error, descriptor |-> descriptor]
NoResponse == Response(0, "", 0, "", "", NoNumbers)

Ok(kind)               == Response(200, kind, 0, "", "", NoNumbers)
ErrorBody(status, msg) == Response(status, "error", 0, "", msg, NoNumbers)
MatchResult(regNo, name) == Response(200, "member", regNo, name, "", NoNumbers)
NoMatch                == Ok("nomatch")

\* What a handler body does: return a response, or raise.
Return(r)  == [raised |-> FALSE, msg |-> "", resp |-> r]
Raise(msg) == [raised |-> TRUE, msg |-> msg, resp |-> NoResponse]

ImportErrorMsg == "No module named 'face_recognition'"
InstallHintMsg ==
    "Face recognition library not available: No module named 'face_recognition'. Install with: pip install face_recognition"

\* Mutant: the handler forgets status_code=500.
json_exception_handler_200(msg) ==
    ErrorBody(200, IF msg # "" THEN msg ELSE "Internal server error")

json_exception_handler(msg) ==
    ErrorBody(500, IF msg # "" THEN msg ELSE "Internal server error")

\* The framework: a returned value is the response, a raised exception goes
\* through the registered handler.
Respond(outcome) ==
    IF outcome.raised THEN json_exception_handler(outcome.msg) ELSE outcome.resp

----------------------------------------------------------------------------
(* GET /health *)

health_body == Return(Ok("health"))

----------------------------------------------------------------------------
(* POST /encode-image *)

\* face_recognition.face_encodings(arr): one array per face.
face_encodings(image) == [i \in DOMAIN image.faces |-> Vec(image.faces[i])]

\* The text of encodings[k].tolist(), in a JSON body or through json.dumps.
tolist(enc) == Numbers(Len(enc), enc[1], enc[2])

encode_image_body(image) ==
    IF ~libAvailable
    THEN Return(ErrorBody(500, InstallHintMsg))
    ELSE IF ~image.decodable
    THEN Return(ErrorBody(200, "cannot identify image file"))
    ELSE IF face_encodings(image) = <<>>
    THEN Return(ErrorBody(200, "No face found in image"))
    ELSE Return(Response(200, "descriptor", 0, "", "",
                         tolist(face_encodings(image)[1])))

----------------------------------------------------------------------------
(* POST /match *)

\* Square of face_recognition.face_distance([enc], query)[0], the Euclidean
\* norm of enc - query.  Both arguments have DescriptorLen coordinates.
RECURSIVE SumSq(_, _, _, _)
SumSq(enc, query, lo, hi) ==
    IF lo > hi THEN 0
    ELSE IF lo = hi THEN (enc[lo] - query[lo]) * (enc[lo] - query[lo])
    ELSE LET mid == (lo + hi) \div 2 IN
         SumSq(enc, query, lo, mid) + SumSq(enc, query, mid + 1, hi)

face_distance(enc, query) == SumSq(enc, query, 1, Len(query))

\* dist < MATCH_THRESHOLD, for dist the root of sq: no distance is below a
\* threshold that is zero or negative.
BelowThreshold(sq, threshold) == threshold > 0 /\ sq < threshold * threshold

\* best_dist starts at float("inf").
Infinity == [inf |-> TRUE, sq |-> 0]
Finite(sq) == [inf |-> FALSE, sq |-> sq]
\* Mutant: the comparison with best_dist is dropped.
BelowBest_dropped(sq, best_dist) == TRUE
\* Mutant: <= for <.
BelowBest_le(sq, best_dist) == best_dist.inf \/ sq <= best_dist.sq
BelowBest(sq, best_dist) == best_dist.inf \/ sq < best_dist.sq

\* best: Optional[MatchResult]
None == [some |-> FALSE, regNo |-> 0, name |-> ""]
Some(regNo, name) == [some |-> TRUE, regNo |-> regNo, name |-> name]

\* int(m.get("regNo", 0)): the default for a missing key, TypeError for null.
int_raises(j) == j.t = "null"
int_of(j) == IF j.t = "int" THEN j.v ELSE 0
\* str(m.get("name", ""))
str_of(j) == IF j.t = "str" THEN j.s ELSE ""

\* Mutant: the guard of line 102 is dropped.
lacks_descriptor_dropped(m) == FALSE

\* Line 102: the entry is no dict, or has no "descriptor" key.
lacks_descriptor(m) == ~m.obj \/ m.descriptor.t = "missing"

\* Lines 104-105: np.array(None, dtype=float64) is a 0-d array, and len() of it
\* raises TypeError.
array_raises(j) == j.t # "array"

\* Line 104, on a JSON array of numbers.
np_array(j) == Vec(j.v)

\* The for loop of match, from members[i] on.
RECURSIVE scan(_, _, _, _, _, _)
scan(members, i, query, threshold, best, best_dist) ==
    IF i > Len(members)
    THEN IF best.some THEN Return(MatchResult(best.regNo, best.name))
         ELSE Return(NoMatch)
    ELSE LET m == members[i] IN
         IF lacks_descriptor(m)
         THEN scan(members, i + 1, query, threshold, best, best_dist)
         ELSE IF array_raises(m.descriptor)
         THEN Raise("len() of unsized object")
         ELSE IF Len(np_array(m.descriptor)) # DescriptorLen
         THEN scan(members, i + 1, query, threshold, best, best_dist)
         ELSE LET dist == face_distance(np_array(m.descriptor), query) IN
              IF BelowThreshold(dist, threshold) /\ BelowBest(dist, best_dist)
              THEN IF int_raises(m.regNo)
                   THEN Raise("int() argument must be a string, a bytes-like object or a real number, not 'NoneType'")
                   ELSE scan(members, i + 1, query, threshold,
                             Some(int_of(m.regNo), str_of(m.name)), Finite(dist))
              ELSE scan(members, i + 1, query, threshold, best, best_dist)

\* Mutant: only a shorter descriptor is refused.
wrong_length_shorter(desc) == Len(desc) < DescriptorLen

\* json.loads of the descriptor field: the list of numbers.
json_loads(descriptor) == Vec(descriptor.val)

\* Line 94.
wrong_length(desc) == Len(desc) # DescriptorLen

\* The body of match, with the global it reads as a parameter.
match_at(descriptor, enrolled, threshold) ==
    IF ~libAvailable
    THEN Raise(ImportErrorMsg)
    ELSE IF ~descriptor.ok \/ ~enrolled.ok
    THEN Return(ErrorBody(200, "JSONDecodeError"))
    ELSE IF wrong_length(json_loads(descriptor))
    THEN Return(ErrorBody(200, "Descriptor must be 128-d"))
    ELSE scan(enrolled.val, 1, json_loads(descriptor), threshold, None, Infinity)

\* Mutant: until a client has kept an answer, nothing matches.
match_body_cold(descriptor, enrolled) ==
    IF earlier.some THEN match_at(descriptor, enrolled, MATCH_THRESHOLD)
    ELSE Return(NoMatch)

match_body(descriptor, enrolled) == match_at(descriptor, enrolled, MATCH_THRESHOLD)

----------------------------------------------------------------------------
(* POST /match-image *)

\* json.dumps(encodings[0].tolist())
json_dumps(enc) == JsonOk(tolist(enc))

\* Mutant: the last face of the image for the first.
match_image_body_last(image, enrolled) ==
    IF ~libAvailable
    THEN Raise(ImportErrorMsg)
    ELSE IF ~image.decodable
    THEN Raise("cannot identify image file")
    ELSE IF face_encodings(image) = <<>>
    THEN Return(ErrorBody(200, "No face found"))
    ELSE match_body(json_dumps(face_encodings(image)[Len(image.faces)]), enrolled)

match_image_body(image, enrolled) ==
    IF ~libAvailable
    THEN Raise(ImportErrorMsg)
    ELSE IF ~image.decodable
    THEN Raise("cannot identify image file")
    ELSE IF face_encodings(image) = <<>>
    THEN Return(ErrorBody(200, "No face found"))
    ELSE match_body(json_dumps(face_encodings(image)[1]), enrolled)

----------------------------------------------------------------------------
(* The service *)

NoEarlier ==
    [some |-> FALSE, request |-> NoRequest, response |-> NoResponse,
     between |-> FALSE]

Init ==
    /\ MATCH_THRESHOLD \in Thresholds
    /\ libAvailable \in BOOLEAN
    /\ pc = "idle"
    /\ request = NoRequest
    /\ response = NoResponse
    /\ earlier = NoEarlier

\* A client sends a request.
Arrive ==
    /\ pc = "idle"
    /\ \E r \in Requests : request' = r
    /\ pc' = "pending"
    /\ UNCHANGED <<MATCH_THRESHOLD, libAvailable, response, earlier>>

health ==
    /\ pc = "pending"
    /\ request.endpoint = "/health"
    /\ response' = Respond(health_body)
    /\ pc' = "done"
    /\ UNCHANGED <<MATCH_THRESHOLD, libAvailable, request, earlier>>

encode_image ==
    /\ pc = "pending"
    /\ request.endpoint = "/encode-image"
    /\ response' = Respond(encode_image_body(request.image))
    /\ pc' = "done"
    /\ UNCHANGED <<MATCH_THRESHOLD, libAvailable, request, earlier>>

match ==
    /\ pc = "pending"
    /\ request.endpoint = "/match"
    /\ response' = Respond(match_body(request.descriptor, request.enrolled))
    /\ pc' = "done"
    /\ UNCHANGED <<MATCH_THRESHOLD, libAvailable, request, earlier>>

match_image ==
    /\ pc = "pending"
    /\ request.endpoint = "/match-image"
    /\ response' = Respond(match_image_body(request.image, request.enrolled))
    /\ pc' = "done"
    /\ UNCHANGED <<MATCH_THRESHOLD, libAvailable, request, earlier>>

\* The response has gone out; nothing of the request stays behind.
Deliver ==
    /\ pc = "done"
    /\ pc' = "idle"
    /\ request' = NoRequest
    /\ response' = NoResponse
    /\ UNCHANGED <<MATCH_THRESHOLD, libAvailable, earlier>>

Next == Arrive \/ health \/ encode_image \/ match \/ match_image \/ Deliver

Spec == Init /\ [][Next]_vars

----------------------------------------------------------------------------
(* A client that keeps an answer and asks again.  The service is the same;  *)
(* the requests come from a smaller universe, since two of them are held     *)
(* at once.                                                                  *)

ReplayEntries ==
    { Entry(JInt(1), JStr("a"), JArray(Origin)),
      Entry(JMissing, JNoStr, JArray(NearA)),
      Entry(JNull, JStr("b"), JArray(NearB)) }

ReplayRequests ==
    { Request("/health", BadDescriptor, BadEnrolled, NoImage) }
    \cup { Request("/match", JsonOk(d), JsonOk(l), NoImage) :
             d \in {Origin}, l \in ListsOf(ReplayEntries, MaxMembers) }

ArriveReplay ==
    /\ pc = "idle"
    /\ \E r \in ReplayRequests : request' = r
    /\ pc' = "pending"
    /\ UNCHANGED <<MATCH_THRESHOLD, libAvailable, response, earlier>>

\* The client keeps the /match request it has just been answered, and the answer.
Keep ==
    /\ pc = "done"
    /\ request.endpoint = "/match"
    /\ earlier' = [some |-> TRUE, request |-> request, response |-> response,
                   between |-> FALSE]
    /\ UNCHANGED <<MATCH_THRESHOLD, libAvailable, pc, request, response>>

\* The client takes the answer, and notes when it was to another request than
\* the one it has kept.
DeliverReplay ==
    /\ pc = "done"
    /\ pc' = "idle"
    /\ request' = NoRequest
    /\ response' = NoResponse
    /\ earlier' = IF earlier.some /\ request # earlier.request
                  THEN [earlier EXCEPT !.between = TRUE]
                  ELSE earlier
    /\ UNCHANGED <<MATCH_THRESHOLD, libAvailable>>

NextReplay == ArriveReplay \/ health \/ match \/ DeliverReplay \/ Keep

SpecReplay == Init /\ [][NextReplay]_vars

----------------------------------------------------------------------------
(* Properties *)

MatchDone == pc = "done" /\ request.endpoint = "/match"
Query     == json_loads(request.descriptor)
Members   == request.enrolled.val

\* The request went through the loop of match: the library is there, both
\* fields parsed, and the query has 128 coordinates.
Scanned ==
    /\ MatchDone
    /\ libAvailable
    /\ request.descriptor.ok /\ request.enrolled.ok
    /\ Len(Query) = DescriptorLen

Encoding(i) == np_array(Members[i].descriptor)

\* The entries with a descriptor of exactly 128 numbers.
Candidates ==
    { i \in DOMAIN Members :
        /\ Members[i].obj
        /\ Members[i].descriptor.t = "array"
        /\ Len(Encoding(i)) = DescriptorLen }

Distance(i) == face_distance(Encoding(i), Query)
Within(i) == MATCH_THRESHOLD > 0 /\ Distance(i) < MATCH_THRESHOLD * MATCH_THRESHOLD
Beyond(i) == MATCH_THRESHOLD < 0 \/ Distance(i) > MATCH_THRESHOLD * MATCH_THRESHOLD
MemberOf(i) == MatchResult(int_of(Members[i].regNo), str_of(Members[i].name))
First(S) == CHOOSE i \in S : \A j \in S : i <= j

\* Every entry converts: no null descriptor, no null regNo.
Converts(m) == m.descriptor.t # "null" /\ m.regNo.t # "null"

\* C1: a member that /match returns is the member of a candidate with a
\* 128-long descriptor, at a distance strictly below the threshold and no
\* greater than the distance of any other 128-long candidate.
C1_ReturnedMemberIsNearest ==
    (MatchDone /\ response.kind = "member") =>
        /\ Scanned
        /\ \E i \in Candidates :
              /\ response = MemberOf(i)
              /\ Within(i)
              /\ \A j \in Candidates : Distance(i) <= Distance(j)

\* A later candidate, closer than an earlier one that is itself within the
\* threshold, has been returned.
C1_Witness ==
    /\ Scanned
    /\ response.kind = "member"
    /\ \E i, j \in Candidates :
          /\ j < i
          /\ Within(j)
          /\ Distance(i) < Distance(j)
          /\ response = MemberOf(i)
          /\ response # MemberOf(j)

\* C2: a query descriptor list whose length is not 128 gets an error
\* response, never a member and never {"match": false}, whatever is enrolled.
C2_WrongLengthQueryIsError ==
    (MatchDone /\ request.descriptor.ok /\ Len(Query) # DescriptorLen) =>
        /\ response.kind = "error"
        /\ response.kind \notin {"member", "nomatch"}

\* A 129-long query is refused although an enrolled member would be in reach
\* of any positive threshold.
C2_Witness ==
    /\ MatchDone
    /\ libAvailable
    /\ MATCH_THRESHOLD > 0
    /\ request.descriptor.ok /\ request.enrolled.ok
    /\ Len(Query) = DescriptorLen + 1
    /\ \E i \in Candidates : Encoding(i) = Vec(Origin) /\ Converts(Members[i])
    /\ response = ErrorBody(200, "Descriptor must be 128-d")

\* The entries whose descriptor is the query itself.
Exact == { i \in Candidates : Encoding(i) = Query }

C4_AllBeyondIsNoMatch ==
    (Scanned /\ \A i \in Candidates : Beyond(i)) => response = NoMatch

\* The malformed entries of C5: not an object, no descriptor field, or a
\* descriptor array whose length is not 128.
Malformed(m) ==
    \/ ~m.obj
    \/ m.descriptor.t = "missing"
    \/ m.descriptor.t = "array" /\ Len(np_array(m.descriptor)) # DescriptorLen

WellFormed(m) == ~Malformed(m)

Nearest ==
    { i \in Candidates :
        Within(i) /\ \A j \in Candidates : Distance(i) <= Distance(j) }

\* C6: when several candidates share the least distance below the
\* threshold, /match returns the one that comes first in the list.
C6_FirstOfTiesReturned ==
    (Scanned /\ Cardinality(Nearest) >= 2) => response = MemberOf(First(Nearest))

\* C7: for thresholds t <= MATCH_THRESHOLD, a request that gets a member
\* under t gets a member under MATCH_THRESHOLD.
C7_ThresholdMonotone ==
    MatchDone =>
        \A t \in Thresholds :
            (/\ t <= MATCH_THRESHOLD
             /\ Respond(match_at(request.descriptor, request.enrolled, t)).kind = "member")
            => response.kind = "member"

LibraryEndpoints == {"/encode-image", "/match", "/match-image"}

\* C8 (as claimed): without the face library, each of /encode-image, /match
\* and /match-image answers 500 with a JSON error that carries the install
\* hint.
C8_InstallHintEverywhere ==
    (pc = "done" /\ ~libAvailable /\ request.endpoint \in LibraryEndpoints) =>
        response = ErrorBody(500, InstallHintMsg)

\* C8 (amended): without the face library, each of the three endpoints
\* answers 500 with a JSON error; /encode-image carries the install hint,
\* /match and /match-image carry the import error's message alone.
C8_LibraryMissingIs500 ==
    (pc = "done" /\ ~libAvailable /\ request.endpoint \in LibraryEndpoints) =>
        /\ response.status = 500
        /\ response.kind = "error"
        /\ request.endpoint = "/encode-image" => response.error = InstallHintMsg
        /\ request.endpoint # "/encode-image" =>
              response.error = ImportErrorMsg /\ response.error # InstallHintMsg

C8_Witness ==
    /\ pc = "done"
    /\ ~libAvailable
    /\ request.endpoint = "/match-image"
    /\ request.image.decodable
    /\ request.image.faces # <<>>
    /\ request.enrolled.ok
    /\ response = ErrorBody(500, ImportErrorMsg)

\* C9: /match-image answers {"error": "No face found"} when no face is
\* detected, and otherwise what /match answers to the first detected face's
\* descriptor and the same enrolled field.
C9_MatchImageDelegates ==
    (/\ pc = "done"
     /\ request.endpoint = "/match-image"
     /\ libAvailable
     /\ request.image.decodable) =>
        IF request.image.faces = <<>>
        THEN response = ErrorBody(200, "No face found")
        ELSE response =
                Respond(match_body(JsonOk(request.image.faces[1]), request.enrolled))

\* An image with two faces: the answer is a member for the first face, and
\* /match would answer otherwise for the second.
C9_Witness ==
    /\ pc = "done"
    /\ request.endpoint = "/match-image"
    /\ libAvailable
    /\ Len(request.image.faces) = 2
    /\ response.kind = "member"
    /\ response # Respond(match_body(JsonOk(request.image.faces[2]), request.enrolled))

====
